---- MODULE Spec2Model ----
(***************************************************************************)
(* Model of the veterinary ("vet") endpoints of solicitudes-service:       *)
(*   app/services/auth_service.py      AuthService                          *)
(*   app/api/dependencies.py           get_current_user_clinic, ...         *)
(*   app/api/v1/endpoints/solicitudes/vet/get.py   the three GET handlers   *)
(*   app/api/v1/endpoints/solicitudes/vet/post.py  create_solicitud         *)
(*                                                                         *)
(* One HTTP request is followed from its arrival to its answer: the        *)
(* dependency of the route is resolved (one action, the outbound profile   *)
(* call included), then the handler body runs (one action, its single      *)
(* awaited store call included).  Each request touches the document store  *)
(* in at most one call, so the interleavings of concurrent requests are    *)
(* the serialisations of those calls; the model runs requests one after    *)
(* the other.                                                              *)
(*                                                                         *)
(* Python values: Optional[x] is <<>> (None) or <<x>>; a str whose         *)
(* characters matter (the estado query parameter) is a sequence of         *)
(* one-character strings; an exception is a record with its class.         *)
(* Accented letters of the messages are written without the accent.        *)
(***************************************************************************)
EXTENDS Integers, Sequences, FiniteSets, TLC

\* ---------------------------------------------------------------- bounds
MaxDocs == 2            \* documents the store may hold

\* ------------------------------------------------------- Python helpers
None == << >>
Some(x) == << x >>

\* result of a call: a returned value or a raised exception, with the
\* external calls made on the way (trace)
Return(v, tr) == [raised |-> FALSE, exc |-> [cls |-> "", status_code |-> 0, detail |-> ""],
                  value |-> v, trace |-> tr]
Raise(e, tr) == [raised |-> TRUE, exc |-> e, value |-> None, trace |-> tr]

HTTPException(code, msg) == [cls |-> "HTTPException", status_code |-> code, detail |-> msg]
RequestError == [cls |-> "RequestError", status_code |-> 0, detail |-> "connect/timeout"]

\* isinstance(e, cls) for the classes the except clauses name: both
\* fastapi.HTTPException and httpx.RequestError derive from Exception
IsInstance(e, cls) ==
    \/ e.cls = cls
    \/ cls = "Exception"

\* ------------------------------------------------ remote auth service
Tokens == {"tokA", "tokB"}
UserIds == {"u1", "u2"}
\* the profile JSON the auth service holds for a token
ProfileOf(token) ==
    IF token = "tokA" THEN [id |-> "u1", email |-> "u1@vet.co"]
                      ELSE [id |-> "u2", email |-> "u2@vet.co"]
NoProfile == [id |-> "", email |-> ""]
\* what one GET /api/v1/user/profile can produce: a 200 with the profile,
\* another status (token unknown or expired, remote failure), or no
\* response at all (connection error, timeout)
RemoteStatuses == {200, 401, 404, 500}
AuthResponses(token) ==
    { [kind |-> "response", status_code |-> 200, json |-> ProfileOf(token)] }
    \cup { [kind |-> "response", status_code |-> s, json |-> NoProfile] : s \in RemoteStatuses \ {200} }
    \cup { [kind |-> "RequestError", status_code |-> 0, json |-> NoProfile] }

\* --------------------------------------------------- external call events
\* one entry of a request's trace: the external call made and its arguments
\* (result: the status code the auth service answered, 0 when it did not
\* answer; for an upload 200 when the image host accepted it, 0 when it failed)
Ev(op) == [op |-> op, owner_id |-> "", estado |-> None, especie |-> None, solicitud_id |-> 0,
           result |-> 0]
AuthCall(remote) == [Ev("auth_call") EXCEPT !.result = remote.status_code]
Count(tr, op) == Cardinality({ i \in DOMAIN tr : tr[i].op = op })
StoreOps == {"get_solicitudes_by_owner", "filter_solicitudes_by_owner_and_status",
             "get_solicitud_by_id_and_owner", "create_solicitud_with_owner"}
StoreCalls(tr) == { i \in DOMAIN tr : tr[i].op \in StoreOps }

\* ----------------------------------------------------------- AuthService
\* mutant: the outbound GET is repeated once when it gets no answer
profile_try_body_retry(remote) ==
    IF remote.kind = "RequestError"
    THEN Raise(RequestError, << AuthCall(remote), AuthCall(remote) >>)
    ELSE IF remote.status_code = 200
         THEN Return(remote.json, << AuthCall(remote) >>)
         ELSE Raise(HTTPException(401, "Token invalido o expirado"), << AuthCall(remote) >>)

\* the try block of get_user_profile_from_token: the outbound GET and the
\* branch on response.status_code
profile_try_body(remote) ==
    IF remote.kind = "RequestError"
    THEN Raise(RequestError, << AuthCall(remote) >>)
    ELSE IF remote.status_code = 200
         THEN Return(remote.json, << AuthCall(remote) >>)
         ELSE Raise(HTTPException(401, "Token invalido o expirado"), << AuthCall(remote) >>)

\* mutant: the generic except clause comes before the RequestError clause
profile_except_generic_first(t) ==
    IF ~t.raised THEN t
    ELSE IF IsInstance(t.exc, "Exception")
         THEN Raise(HTTPException(500, "Error interno del servidor de autenticacion"), t.trace)
    ELSE IF IsInstance(t.exc, "RequestError")
         THEN Raise(HTTPException(503, "Servicio de autenticacion no disponible"), t.trace)
    ELSE t

\* the except clauses of get_user_profile_from_token, in source order
profile_except(t) ==
    IF ~t.raised THEN t
    ELSE IF IsInstance(t.exc, "RequestError")
         THEN Raise(HTTPException(503, "Servicio de autenticacion no disponible"), t.trace)
    ELSE IF IsInstance(t.exc, "Exception")
         THEN Raise(HTTPException(500, "Error interno del servidor de autenticacion"), t.trace)
    ELSE t

get_user_profile_from_token(remote) == profile_except(profile_try_body(remote))

\* mutant: an absent X-User-Type header becomes "owner"
default_user_type_owner(user_type) == IF user_type = None THEN "owner" ELSE user_type[1]

\* lines 80-83 / 156-157: an absent X-User-Type header becomes "clinic"
default_user_type(user_type) == IF user_type = None THEN "clinic" ELSE user_type[1]

UserTypes == {"owner", "clinic"}
NoUser == [id |-> "", email |-> "", userType |-> ""]

\* mutant: the user type is the default, not the header's
get_current_user_default_type(user_type, remote) ==
    LET ut == default_user_type(user_type) IN
    IF ut \notin UserTypes
    THEN Raise(HTTPException(400, "userType invalido. Debe ser 'owner' o 'clinic'"), << >>)
    ELSE LET p == get_user_profile_from_token(remote) IN
         IF p.raised THEN p
         ELSE Return([id |-> p.value.id, email |-> p.value.email, userType |-> "clinic"], p.trace)

\* AuthService.get_current_user
get_current_user(user_type, remote) ==
    LET ut == default_user_type(user_type) IN
    IF ut \notin UserTypes
    THEN Raise(HTTPException(400, "userType invalido. Debe ser 'owner' o 'clinic'"), << >>)
    ELSE LET p == get_user_profile_from_token(remote) IN
         IF p.raised THEN p
         ELSE Return([id |-> p.value.id, email |-> p.value.email, userType |-> ut], p.trace)

\* AuthService.get_current_user_id
get_current_user_id(user_type, remote) ==
    LET ut == default_user_type(user_type) IN
    IF ut \notin UserTypes
    THEN Raise(HTTPException(400, "userType invalido. Debe ser 'owner' o 'clinic'"), << >>)
    ELSE LET p == get_user_profile_from_token(remote) IN
         IF p.raised THEN p
         ELSE Return(p.value.id, p.trace)

\* mutant: the profile is fetched before the user type is validated
get_user_id_from_token_call_first(user_type, remote) ==
    LET p == get_user_profile_from_token(remote) IN
    IF p.raised THEN p
    ELSE IF user_type \notin UserTypes
         THEN Raise(HTTPException(400, "userType invalido. Debe ser 'owner' o 'clinic'"), p.trace)
         ELSE Return(p.value.id, p.trace)

\* AuthService.get_user_id_from_token (user_type: str, no default)
get_user_id_from_token(user_type, remote) ==
    IF user_type \notin UserTypes
    THEN Raise(HTTPException(400, "userType invalido. Debe ser 'owner' o 'clinic'"), << >>)
    ELSE LET p == get_user_profile_from_token(remote) IN
         IF p.raised THEN p
         ELSE Return(p.value.id, p.trace)

\* mutant: the user type is not compared with the allowed types
verify_user_type_unchecked(user, allowed_types) == Return(TRUE, << >>)

\* AuthService.verify_user_type
verify_user_type(user, allowed_types) ==
    IF user.userType \notin allowed_types
    THEN Raise(HTTPException(403, "Acceso denegado"), << >>)
    ELSE Return(TRUE, << >>)

\* ---------------------------------------------------- api/dependencies.py
get_current_user_clinic(user_type, remote) ==
    LET u == get_current_user(user_type, remote) IN
    IF u.raised THEN u
    ELSE LET v == verify_user_type(u.value, {"clinic"}) IN
         IF v.raised THEN Raise(v.exc, u.trace) ELSE u

get_current_user_id_clinic(user_type, remote) == get_current_user_id(user_type, remote)

\* ------------------------------------------------------------ str methods
Lowers == <<"a","b","c","d","e","f","g","h","i","j","k","l","m",
            "n","o","p","q","r","s","t","u","v","w","x","y","z">>
Uppers == <<"A","B","C","D","E","F","G","H","I","J","K","L","M",
            "N","O","P","Q","R","S","T","U","V","W","X","Y","Z">>
IsLower(c) == \E i \in DOMAIN Lowers : Lowers[i] = c
IsUpper(c) == \E i \in DOMAIN Uppers : Uppers[i] = c
IsCased(c) == IsLower(c) \/ IsUpper(c)
IsSpace(c) == c \in {" ", "\t", "\n"}
ToUpper(c) == IF IsLower(c) THEN Uppers[CHOOSE i \in DOMAIN Lowers : Lowers[i] = c] ELSE c
ToLower(c) == IF IsUpper(c) THEN Lowers[CHOOSE i \in DOMAIN Uppers : Uppers[i] = c] ELSE c

\* str.title(): a cased character is upper-cased when the character before
\* it is not cased (or there is none) and lower-cased otherwise
title(s) ==
    [ i \in DOMAIN s |->
        IF ~IsCased(s[i]) THEN s[i]
        ELSE IF i > 1 /\ IsCased(s[i-1]) THEN ToLower(s[i]) ELSE ToUpper(s[i]) ]

\* str.strip(): leading and trailing whitespace removed
RECURSIVE lstrip(_)
lstrip(s) == IF s # << >> /\ IsSpace(Head(s)) THEN lstrip(Tail(s)) ELSE s
RECURSIVE rstrip(_)
rstrip(s) == IF s # << >> /\ IsSpace(s[Len(s)]) THEN rstrip(SubSeq(s, 1, Len(s) - 1)) ELSE s
strip(s) == rstrip(lstrip(s))
\* truth value of a str
Truthy(s) == s # << >>

\* --------------------------------------------------------------- statuses
S_Activa == <<"A", "c", "t", "i", "v", "a">>
S_Completada == <<"C", "o", "m", "p", "l", "e", "t", "a", "d", "a">>
S_Cancelada == <<"C", "a", "n", "c", "e", "l", "a", "d", "a">>
\* app.constants.solicitudes.ESTADOS_PERMITIDOS
ESTADOS_PERMITIDOS == { S_Activa, S_Completada, S_Cancelada }

\* ------------------------------------------------------ SolicitudMongoModel
\* the document store, queried by owner id and equality filters
get_solicitudes_by_owner(st, owner_id) == { d \in st : d.ownerId = owner_id }

filter_solicitudes_by_owner_and_status(st, owner_id, estado, especie) ==
    { d \in st : /\ d.ownerId = owner_id
                 /\ (estado = None \/ d.estado = estado[1])
                 /\ (especie = None \/ d.especie = especie[1]) }

get_solicitud_by_id_and_owner(st, solicitud_id, owner_id) ==
    LET found == { d \in st : d.id = solicitud_id /\ d.ownerId = owner_id } IN
    IF found = {} THEN None ELSE Some(CHOOSE d \in found : TRUE)

\* the document as stored: the dict handed over plus its owner
with_owner(solicitud, owner_id) ==
    [id |-> solicitud.id, fecha_creacion |-> solicitud.fecha_creacion,
     estado |-> solicitud.estado, foto_mascota |-> solicitud.foto_mascota,
     especie |-> solicitud.especie, peso_minimo |-> solicitud.peso_minimo, ownerId |-> owner_id]
create_solicitud_with_owner(st, solicitud, owner_id) == st \cup { with_owner(solicitud, owner_id) }

\* ------------------------------------------------------------ vet/get.py
\* mutant: the store is queried with the user's email, not the id
get_all_solicitudes_by_email(st, current_user) ==
    Return(get_solicitudes_by_owner(st, current_user.email),
           << [Ev("get_solicitudes_by_owner") EXCEPT !.owner_id = current_user.email] >>)

get_all_solicitudes(st, current_user) ==
    Return(get_solicitudes_by_owner(st, current_user.id),
           << [Ev("get_solicitudes_by_owner") EXCEPT !.owner_id = current_user.id] >>)

\* mutant: the estado is tested for emptiness without strip()
estado_is_given_no_strip(estado) == estado # None /\ Truthy(estado[1])

\* lines 172-181: the estado handed on, after normalisation
estado_is_given(estado) == estado # None /\ Truthy(estado[1]) /\ Truthy(strip(estado[1]))
normalise_estado(estado) ==
    IF estado_is_given(estado)
    THEN IF title(estado[1]) \notin ESTADOS_PERMITIDOS THEN estado ELSE Some(title(estado[1]))
    ELSE None
\* mutant: no error is collected for an estado that is not permitted
estado_error_details_none(estado) == << >>

\* lines 170-177: the validation errors collected
estado_error_details(estado) ==
    IF estado_is_given(estado) /\ title(estado[1]) \notin ESTADOS_PERMITIDOS
    THEN << "estado: Estado invalido" >> ELSE << >>

get_solicitudes_by_status(st, current_user, estado, especie) ==
    IF estado_error_details(estado) # << >>
    THEN Raise(HTTPException(422, "Error de validacion en los parametros de filtro"), << >>)
    ELSE Return(filter_solicitudes_by_owner_and_status(st, current_user.id,
                                                       normalise_estado(estado), especie),
                << [Ev("filter_solicitudes_by_owner_and_status") EXCEPT
                       !.owner_id = current_user.id,
                       !.estado = normalise_estado(estado),
                       !.especie = especie] >>)

\* mutant: the request is looked up by its id alone
get_solicitud_by_id_any_owner(st, solicitud_id, current_user) ==
    LET found == { d \in st : d.id = solicitud_id }
        tr == << [Ev("get_solicitud_by_id_and_owner") EXCEPT
                     !.owner_id = current_user.id, !.solicitud_id = solicitud_id] >>
    IN IF found = {}
       THEN Raise(HTTPException(404, "Solicitud no encontrada"), tr)
       ELSE Return(found, tr)

get_solicitud_by_id(st, solicitud_id, current_user) ==
    LET solicitud == get_solicitud_by_id_and_owner(st, solicitud_id, current_user.id)
        tr == << [Ev("get_solicitud_by_id_and_owner") EXCEPT
                     !.owner_id = current_user.id, !.solicitud_id = solicitud_id] >>
    IN IF solicitud = None
       THEN Raise(HTTPException(404, "Solicitud no encontrada"), tr)
       ELSE Return({ solicitud[1] }, tr)

\* ------------------------------------------------------------ vet/post.py
\* {**a, **b}: the keys of b win
DictMerge(a, b) ==
    [ k \in (DOMAIN a) \cup (DOMAIN b) |-> IF k \in DOMAIN b THEN b[k] ELSE a[k] ]

\* mutant: a submitted estado is bound too and reaches model_dump()
form_parameters_with_estado(form) ==
    IF form.estado = None
    THEN [especie |-> form.especie, peso_minimo |-> form.peso_minimo]
    ELSE [especie |-> form.especie, peso_minimo |-> form.peso_minimo, estado |-> form.estado[1]]

\* the declared Form(...) parameters, bound from the submitted form; a
\* submitted field the signature does not declare (estado) is not bound
form_parameters(form) == [especie |-> form.especie, peso_minimo |-> form.peso_minimo]

\* SolicitudCreateWithImage(...): the field validation layer
validation_errors(fields) ==
    IF fields.peso_minimo <= 0 THEN << "peso_minimo: must be greater than 0" >> ELSE << >>
model_dump(fields) == fields

\* secrets.token_hex(12): an id no stored document has
token_hex(st) == CHOOSE n \in 1..(Cardinality(st) + 1) : \A d \in st : d.id # n

\* cloudinary upload_image(file, public_id): the URL of the uploaded image,
\* or an exception
UrlOf(public_id) == [host |-> "res.cloudinary.com", public_id |-> public_id]
upload_image(public_id, upload_ok) ==
    IF upload_ok
    THEN Return(UrlOf(public_id),
                << [Ev("upload_image") EXCEPT !.solicitud_id = public_id, !.result = 200] >>)
    ELSE Raise([cls |-> "Exception", status_code |-> 0, detail |-> "upload failed"],
               << [Ev("upload_image") EXCEPT !.solicitud_id = public_id] >>)

\* lines 147-153
nueva_solicitud(solicitud_id, foto_url, validada) ==
    DictMerge([id |-> solicitud_id, fecha_creacion |-> "now", estado |-> S_Activa,
               foto_mascota |-> foto_url],
              model_dump(validada))

\* mutant: a failed upload is ignored and the request is stored without photo
create_validated_ignore_upload_error(st, images, current_user_id, validada, foto_mascota, upload_ok) ==
    LET solicitud_id == token_hex(st)
        up == IF foto_mascota THEN upload_image(solicitud_id, upload_ok)
                              ELSE Return(None, << >>)
        foto_url == IF foto_mascota /\ ~up.raised THEN Some(up.value) ELSE None
        nueva == nueva_solicitud(solicitud_id, foto_url, validada)
    IN Return([solicitud |-> with_owner(nueva, current_user_id),
               store |-> create_solicitud_with_owner(st, nueva, current_user_id),
               images |-> IF foto_mascota /\ ~up.raised THEN images \cup { solicitud_id }
                                                         ELSE images],
              up.trace \o << [Ev("create_solicitud_with_owner") EXCEPT
                                 !.owner_id = current_user_id,
                                 !.estado = Some(nueva.estado),
                                 !.solicitud_id = solicitud_id] >>)

\* lines 133-156, once the fields are validated
create_validated(st, images, current_user_id, validada, foto_mascota, upload_ok) ==
    LET solicitud_id == token_hex(st)
        up == IF foto_mascota THEN upload_image(solicitud_id, upload_ok)
                              ELSE Return(None, << >>)
        foto_url == IF foto_mascota THEN Some(up.value) ELSE None
        nueva == nueva_solicitud(solicitud_id, foto_url, validada)
    IN IF up.raised
       THEN Raise(HTTPException(400, "Error al subir la imagen"), up.trace)
       ELSE Return([solicitud |-> with_owner(nueva, current_user_id),
                    store |-> create_solicitud_with_owner(st, nueva, current_user_id),
                    images |-> IF foto_mascota THEN images \cup { solicitud_id } ELSE images],
                   up.trace \o << [Ev("create_solicitud_with_owner") EXCEPT
                                      !.owner_id = current_user_id,
                                      !.estado = Some(nueva.estado),
                                      !.solicitud_id = solicitud_id] >>)

\* mutant: the image is uploaded before the fields are validated
create_solicitud_upload_first(st, images, current_user_id, form, foto_mascota, upload_ok) ==
    LET up == IF foto_mascota THEN upload_image(token_hex(st), upload_ok)
                              ELSE Return(None, << >>)
    IN IF up.raised
       THEN Raise(HTTPException(400, "Error al subir la imagen"), up.trace)
       ELSE IF validation_errors(form_parameters(form)) # << >>
            THEN Raise(HTTPException(422, "Error de validacion en los datos de la solicitud"),
                       up.trace)
            ELSE create_validated(st, images, current_user_id, form_parameters(form),
                                  foto_mascota, upload_ok)

create_solicitud(st, images, current_user_id, form, foto_mascota, upload_ok) ==
    IF validation_errors(form_parameters(form)) # << >>
    THEN Raise(HTTPException(422, "Error de validacion en los datos de la solicitud"), << >>)
    ELSE create_validated(st, images, current_user_id, form_parameters(form),
                          foto_mascota, upload_ok)

\* ------------------------------------------------------- request inputs
Headers == { None, Some("owner"), Some("clinic"), Some("admin") }
EstadoInputs == { None, Some(<< >>), Some(<<" ">>), Some(<<"a", "c", "t", "i", "v", "a">>), Some(<<"A", "C", "T", "I", "V", "A">>),
                  Some(<<" ", "a", "c", "t", "i", "v", "a">>), Some(<<"B", "o", "r", "r", "a", "d", "a">>), Some(<<"c", "a", "n", "c", "e", "l", "a", "d", "a">>) }
EspecieFilters == { None, Some("Perro") }
Forms == [ especie : {"Perro", "Gato"}, peso_minimo : {0, 25},
           estado : { None, Some(S_Cancelada) } ]
NoForm == [ especie |-> "", peso_minimo |-> 0, estado |-> None ]
SolicitudIds == 1..(MaxDocs + 1)

NoReq == [ endpoint |-> "", token |-> "", user_type |-> None, estado |-> None,
           especie |-> None, solicitud_id |-> 0, form |-> NoForm, foto_mascota |-> FALSE ]
GetEndpoints == { "get_all_solicitudes", "get_solicitudes_by_status", "get_solicitud_by_id" }
Requests ==
    { [NoReq EXCEPT !.endpoint = "get_all_solicitudes", !.token = t, !.user_type = h]
        : t \in Tokens, h \in Headers }
    \cup { [NoReq EXCEPT !.endpoint = "get_solicitudes_by_status", !.token = x[1],
                         !.user_type = x[2], !.estado = x[3], !.especie = x[4]]
        : x \in Tokens \X Headers \X EstadoInputs \X EspecieFilters }
    \cup { [NoReq EXCEPT !.endpoint = "get_solicitud_by_id", !.token = x[1],
                         !.user_type = x[2], !.solicitud_id = x[3]]
        : x \in Tokens \X Headers \X SolicitudIds }
    \cup { [NoReq EXCEPT !.endpoint = "get_user_id_from_token", !.token = t, !.user_type = h]
        : t \in Tokens, h \in Headers \ { None } }
    \cup { [NoReq EXCEPT !.endpoint = "create_solicitud", !.token = x[1],
                         !.user_type = x[2], !.form = x[3], !.foto_mascota = x[4]]
        : x \in Tokens \X Headers \X Forms \X BOOLEAN }

NoResp == [ status_code |-> 0, detail |-> "", body |-> {} ]
ErrorResponse(exc) == [ status_code |-> exc.status_code, detail |-> exc.detail, body |-> {} ]
NoPrev == [ token |-> "", user_type |-> None, user |-> NoUser ]

\* ------------------------------------------------------------------ state
VARIABLES
    store,            \* the documents of the solicitudes collection
    images,           \* public ids the image host holds
    pc,               \* "idle", "depends", "handler", "done"
    req,              \* the request being served
    current_user,     \* AuthenticatedUser that get_current_user built
    current_user_id,  \* user id the route dependency produced (create)
    resp,             \* the answer
    log,              \* external calls made for this request, in order
    prev              \* history: the last earlier request a user was built for

vars == << store, images, pc, req, current_user, current_user_id, resp, log, prev >>

Init ==
    /\ store = {}
    /\ images = {}
    /\ pc = "idle"
    /\ req = NoReq
    /\ current_user = NoUser
    /\ current_user_id = ""
    /\ resp = NoResp
    /\ log = << >>
    /\ prev = NoPrev

\* a request arrives
Receive ==
    /\ pc = "idle"
    /\ \E r \in Requests :
         /\ r.endpoint = "create_solicitud" => Cardinality(store) < MaxDocs
         /\ req' = r
    /\ pc' = "depends"
    /\ UNCHANGED << store, images, current_user, current_user_id, resp, log, prev >>

\* Depends(get_current_user_clinic) of the three GET routes
DependsClinicUser ==
    /\ pc = "depends"
    /\ req.endpoint \in GetEndpoints
    /\ \E remote \in AuthResponses(req.token) :
         LET u == get_current_user(req.user_type, remote)
             r == get_current_user_clinic(req.user_type, remote) IN
         /\ log' = log \o r.trace
         /\ current_user' = IF u.raised THEN NoUser ELSE u.value
         /\ IF r.raised
            THEN /\ resp' = ErrorResponse(r.exc)
                 /\ pc' = "done"
            ELSE /\ pc' = "handler"
                 /\ UNCHANGED resp
    /\ UNCHANGED << store, images, req, current_user_id, prev >>

\* Depends(get_current_user_id_clinic) of the POST route
DependsClinicUserId ==
    /\ pc = "depends"
    /\ req.endpoint = "create_solicitud"
    /\ \E remote \in AuthResponses(req.token) :
         LET r == get_current_user_id_clinic(req.user_type, remote) IN
         /\ log' = log \o r.trace
         /\ IF r.raised
            THEN /\ resp' = ErrorResponse(r.exc)
                 /\ pc' = "done"
                 /\ UNCHANGED current_user_id
            ELSE /\ current_user_id' = r.value
                 /\ pc' = "handler"
                 /\ UNCHANGED resp
    /\ UNCHANGED << store, images, req, current_user, prev >>

\* a direct call of AuthService.get_user_id_from_token(token, user_type)
CallGetUserIdFromToken ==
    /\ pc = "depends"
    /\ req.endpoint = "get_user_id_from_token"
    /\ \E remote \in AuthResponses(req.token) :
         LET r == get_user_id_from_token(req.user_type[1], remote) IN
         /\ log' = log \o r.trace
         /\ pc' = "done"
         /\ IF r.raised
            THEN /\ resp' = ErrorResponse(r.exc)
                 /\ UNCHANGED current_user_id
            ELSE /\ current_user_id' = r.value
                 /\ UNCHANGED resp
    /\ UNCHANGED << store, images, req, current_user, prev >>

\* a GET handler body: its result or exception becomes the answer
Answer(r, ok_status) ==
    /\ log' = log \o r.trace
    /\ resp' = IF r.raised THEN ErrorResponse(r.exc)
               ELSE [ status_code |-> ok_status, detail |-> "", body |-> r.value ]
    /\ pc' = "done"

GetAllSolicitudes ==
    /\ pc = "handler"
    /\ req.endpoint = "get_all_solicitudes"
    /\ Answer(get_all_solicitudes(store, current_user), 200)
    /\ UNCHANGED << store, images, req, current_user, current_user_id, prev >>

GetSolicitudesByStatus ==
    /\ pc = "handler"
    /\ req.endpoint = "get_solicitudes_by_status"
    /\ Answer(get_solicitudes_by_status(store, current_user, req.estado, req.especie), 200)
    /\ UNCHANGED << store, images, req, current_user, current_user_id, prev >>

GetSolicitudById ==
    /\ pc = "handler"
    /\ req.endpoint = "get_solicitud_by_id"
    /\ Answer(get_solicitud_by_id(store, req.solicitud_id, current_user), 200)
    /\ UNCHANGED << store, images, req, current_user, current_user_id, prev >>

CreateSolicitud ==
    /\ pc = "handler"
    /\ req.endpoint = "create_solicitud"
    /\ \E upload_ok \in BOOLEAN :
         LET r == create_solicitud(store, images, current_user_id, req.form,
                                   req.foto_mascota, upload_ok) IN
         /\ log' = log \o r.trace
         /\ pc' = "done"
         /\ IF r.raised
            THEN /\ resp' = ErrorResponse(r.exc)
                 /\ UNCHANGED << store, images >>
            ELSE /\ resp' = [ status_code |-> 201, detail |-> "", body |-> { r.value.solicitud } ]
                 /\ store' = r.value.store
                 /\ images' = r.value.images
    /\ UNCHANGED << req, current_user, current_user_id, prev >>

\* the answer is sent; nothing of the request is kept but the history
Respond ==
    /\ pc = "done"
    /\ pc' = "idle"
    /\ prev' = IF current_user # NoUser
               THEN [ token |-> req.token, user_type |-> req.user_type, user |-> current_user ]
               ELSE prev
    /\ req' = NoReq
    /\ current_user' = NoUser
    /\ current_user_id' = ""
    /\ resp' = NoResp
    /\ log' = << >>
    /\ UNCHANGED << store, images >>

Next ==
    \/ Receive
    \/ DependsClinicUser
    \/ DependsClinicUserId
    \/ CallGetUserIdFromToken
    \/ GetAllSolicitudes
    \/ GetSolicitudesByStatus
    \/ GetSolicitudById
    \/ CreateSolicitud
    \/ Respond

Spec == Init /\ [][Next]_vars

TypeOK ==
    /\ pc \in {"idle", "depends", "handler", "done"}
    /\ Cardinality(store) <= MaxDocs
    /\ \A d \in store : d.ownerId \in UserIds

\* ------------------------------------------------------------- properties
\* the auth service answered this request's profile call with status code
\* (0: it did not answer)
AuthAnswered(code) == \E i \in DOMAIN log : log[i].op = "auth_call" /\ log[i].result = code
TokenIsValid == AuthAnswered(200)
Uploads(tr) == { i \in DOMAIN tr : tr[i].op = "upload_image" }
\* the stored requests of the user the auth service knows the token for
OwnedBy(token) == { d \in store : d.ownerId = ProfileOf(token).id }

\* C1: whenever the auth service answers the profile lookup with a status
\* other than 200, the request is answered 401 "Token invalido o expirado"
C1_NonOkProfileIs401 ==
    (pc = "done" /\ \E code \in RemoteStatuses \ {200} : AuthAnswered(code))
        => (resp.status_code = 401 /\ resp.detail = "Token invalido o expirado")

\* C2: a create_solicitud request with X-User-Type: owner, a valid token and
\* valid form fields is answered 403 and hands no document to the store
C2_OwnerCannotCreate ==
    ( /\ pc = "done"
      /\ req.endpoint = "create_solicitud"
      /\ req.user_type = Some("owner")
      /\ TokenIsValid
      /\ validation_errors(form_parameters(req.form)) = << >> )
        => (resp.status_code = 403 /\ Count(log, "create_solicitud_with_owner") = 0)

\* C3: get_all_solicitudes answers exactly the stored requests owned by the
\* authenticated user, get_solicitudes_by_status a subset of them
C3_OwnerIsolation ==
    (pc = "done" /\ resp.status_code = 200)
        => /\ req.endpoint = "get_all_solicitudes" => resp.body = OwnedBy(req.token)
           /\ req.endpoint = "get_solicitudes_by_status" => resp.body \subseteq OwnedBy(req.token)
C3_Witness ==
    /\ pc = "done" /\ resp.status_code = 200
    /\ req.endpoint = "get_all_solicitudes"
    /\ resp.body # {}
    /\ store \ OwnedBy(req.token) # {}

\* C4: a GET request with a valid token and X-User-Type: owner is answered
\* 403 and no store call is made for it
C4_GetIsClinicOnly ==
    ( /\ pc \in {"handler", "done"}
      /\ req.endpoint \in GetEndpoints
      /\ req.user_type = Some("owner")
      /\ TokenIsValid )
        => (pc = "done" /\ resp.status_code = 403 /\ StoreCalls(log) = {})
C4_Witness ==
    /\ pc = "done"
    /\ req.endpoint = "get_solicitud_by_id"
    /\ req.user_type = Some("owner")
    /\ TokenIsValid
    /\ resp.status_code = 403
    /\ \E d \in OwnedBy(req.token) : d.id = req.solicitud_id

\* C5: every document handed to the store, and every stored document, has
\* status "Activa", a permitted status
C5_AlwaysActiva ==
    /\ \A i \in DOMAIN log :
          log[i].op = "create_solicitud_with_owner" => log[i].estado = Some(S_Activa)
    /\ \A d \in store : d.estado = S_Activa /\ d.estado \in ESTADOS_PERMITIDOS
C5_Witness ==
    /\ pc = "done" /\ resp.status_code = 201
    /\ req.form.estado = Some(S_Cancelada)
    /\ \E d \in resp.body : d \in store /\ d.estado = S_Activa

\* C6: get_solicitud_by_id answers the request with the given id when it is
\* stored and owned by the authenticated user, and 404 otherwise
C6_GetByIdIffOwned ==
    ( /\ pc = "done"
      /\ req.endpoint = "get_solicitud_by_id"
      /\ StoreCalls(log) # {} )
        => IF \E d \in OwnedBy(req.token) : d.id = req.solicitud_id
           THEN /\ resp.status_code = 200
                /\ resp.body = { d \in OwnedBy(req.token) : d.id = req.solicitud_id }
           ELSE /\ resp.status_code = 404
                /\ resp.detail = "Solicitud no encontrada"
C6_Witness ==
    /\ pc = "done"
    /\ req.endpoint = "get_solicitud_by_id"
    /\ resp.status_code = 404
    /\ \E d \in store \ OwnedBy(req.token) : d.id = req.solicitud_id

\* C7: when the profile call gets no answer (connection error, timeout) the
\* request is answered 503 and makes no store call and no upload
C7_RequestErrorIs503 ==
    AuthAnswered(0)
        => /\ pc = "done"
           /\ resp.status_code = 503
           /\ resp.detail = "Servicio de autenticacion no disponible"
           /\ StoreCalls(log) = {}
           /\ Uploads(log) = {}
C7_Witness ==
    /\ AuthAnswered(0)
    /\ req.endpoint = "create_solicitud"
    /\ req.foto_mascota
    /\ validation_errors(form_parameters(req.form)) = << >>
    /\ resp.status_code = 503

\* C8: a request makes at most one profile call, and exactly one once its
\* user type passed validation, whatever earlier requests did
C8_OneProfileCallPerRequest ==
    /\ Count(log, "auth_call") <= 1
    /\ (pc \in {"handler", "done"} /\ default_user_type(req.user_type) \in UserTypes)
          => Count(log, "auth_call") = 1
C8_Witness ==
    /\ pc = "done"
    /\ prev.token = req.token
    /\ prev.user # NoUser
    /\ resp.status_code = 503
    /\ Count(log, "auth_call") = 1

\* C9: the estado handed to the store query is None or a permitted status;
\* a non-blank estado whose normalised form is not permitted is answered 422
\* without a store call
C9_EstadoHandedOnIsPermitted ==
    /\ \A i \in DOMAIN log :
          log[i].op = "filter_solicitudes_by_owner_and_status"
              => (log[i].estado = None \/ log[i].estado[1] \in ESTADOS_PERMITIDOS)
    /\ ( /\ pc = "done"
         /\ req.endpoint = "get_solicitudes_by_status"
         /\ TokenIsValid /\ current_user.userType = "clinic"
         /\ estado_is_given(req.estado)
         /\ title(req.estado[1]) \notin ESTADOS_PERMITIDOS )
          => /\ resp.status_code = 422
             /\ resp.detail = "Error de validacion en los parametros de filtro"
             /\ StoreCalls(log) = {}
C9_Witness ==
    /\ pc = "done"
    /\ req.endpoint = "get_solicitudes_by_status"
    /\ req.estado = Some(<<" ", "a", "c", "t", "i", "v", "a">>)
    /\ resp.status_code = 422
    /\ OwnedBy(req.token) # {}

\* C10: the user built has the id of the token's profile and the user type
\* of the request's own header; an earlier request with the same token and
\* another header built the same id with its own user type
C10_IdFromTokenTypeFromHeader ==
    /\ current_user # NoUser
          => /\ current_user.id = ProfileOf(req.token).id
             /\ current_user.userType = default_user_type(req.user_type)
    /\ prev.user # NoUser => prev.user.userType = default_user_type(prev.user_type)
    /\ (current_user # NoUser /\ prev.user # NoUser /\ prev.token = req.token)
          => current_user.id = prev.user.id
    /\ pc = "idle" => (current_user = NoUser /\ current_user_id = "")
C10_Witness ==
    /\ current_user # NoUser /\ prev.user # NoUser
    /\ prev.token = req.token
    /\ prev.user_type = Some("owner") /\ req.user_type = Some("clinic")
    /\ current_user.id = prev.user.id
    /\ current_user.userType = "clinic" /\ prev.user.userType = "owner"

\* C11: a user type that is present and is neither 'owner' nor 'clinic' is
\* answered 400, and no profile call is made for the request
C11_InvalidUserTypeIs400BeforeCall ==
    ( /\ pc \in {"handler", "done"}
      /\ req.user_type # None
      /\ req.user_type[1] \notin UserTypes )
        => /\ pc = "done"
           /\ resp.status_code = 400
           /\ resp.detail = "userType invalido. Debe ser 'owner' o 'clinic'"
           /\ Count(log, "auth_call") = 0
C11_Witness ==
    /\ pc = "done"
    /\ req.endpoint = "get_user_id_from_token"
    /\ req.user_type = Some("admin")
    /\ resp.status_code = 400
    /\ log = << >>

\* C12: an estado that is absent, empty or only whitespace is handed to the
\* store as None; with no other filter the answer is the one of
\* get_all_solicitudes for the same user and store
C12_BlankEstadoIsNoFilter ==
    ( /\ pc = "done"
      /\ req.endpoint = "get_solicitudes_by_status"
      /\ TokenIsValid /\ current_user.userType = "clinic"
      /\ (req.estado = None \/ strip(req.estado[1]) = << >>) )
        => /\ resp.status_code = 200
           /\ \E i \in DOMAIN log : log[i].op = "filter_solicitudes_by_owner_and_status"
           /\ \A i \in DOMAIN log :
                 log[i].op = "filter_solicitudes_by_owner_and_status" => log[i].estado = None
           /\ req.especie = None
                 => resp.body = get_all_solicitudes(store, current_user).value
C12_Witness ==
    /\ pc = "done"
    /\ req.endpoint = "get_solicitudes_by_status"
    /\ req.estado = Some(<<" ">>)
    /\ req.especie = None
    /\ resp.status_code = 200
    /\ resp.body # {}
    /\ resp.body # store

\* position of an external call in create_solicitud: authenticate (1),
\* validate (2, no external call), upload (3), insert (4)
StepOf(op) ==
    IF op = "auth_call" THEN 1
    ELSE IF op = "upload_image" THEN 3
    ELSE IF op = "create_solicitud_with_owner" THEN 4
    ELSE 0
FormIsInvalid == validation_errors(form_parameters(req.form)) # << >>

C13_StepsInOrder ==
    req.endpoint = "create_solicitud"
        => /\ \A i, j \in DOMAIN log : i < j => StepOf(log[i].op) < StepOf(log[j].op)
           /\ \A i \in DOMAIN log : StepOf(log[i].op) > 0
           /\ (Uploads(log) # {} \/ StoreCalls(log) # {}) => (TokenIsValid /\ ~FormIsInvalid)
           /\ (pc = "done" /\ TokenIsValid /\ FormIsInvalid)
                 => /\ resp.status_code = 422
                    /\ resp.detail = "Error de validacion en los datos de la solicitud"
                    /\ Uploads(log) = {}
                    /\ StoreCalls(log) = {}
C13_InvalidFormChangesNothing ==
    (req.endpoint = "create_solicitud" /\ FormIsInvalid /\ pc # "done")
        => (store' = store /\ images' = images)

\* C13: create_solicitud authenticates, validates, uploads and inserts in
\* this order; when the fields are invalid the answer is 422, no upload and
\* no insert is made, and the store and the image host stay as they were
C13_ValidateBeforeUploadAndInsert ==
    []C13_StepsInOrder /\ [][C13_InvalidFormChangesNothing]_vars
C13_Witness ==
    /\ pc = "done"
    /\ req.endpoint = "create_solicitud"
    /\ req.foto_mascota
    /\ FormIsInvalid
    /\ resp.status_code = 422
    /\ Count(log, "auth_call") = 1 /\ Len(log) = 1

UploadFailed == \E i \in DOMAIN log : log[i].op = "upload_image" /\ log[i].result = 0
UploadedAs(public_id) ==
    \E i \in DOMAIN log :
        log[i].op = "upload_image" /\ log[i].result = 200 /\ log[i].solicitud_id = public_id

C14_PhotoOfInsertedDocument ==
    /\ \A d \in store :
          /\ d.foto_mascota = None \/ d.foto_mascota = Some(UrlOf(d.id))
          /\ d.foto_mascota # None <=> d.id \in images
    /\ req.endpoint = "create_solicitud"
          => /\ UploadFailed
                  => /\ req.foto_mascota
                     /\ pc = "done"
                     /\ resp.status_code = 400
                     /\ Count(log, "create_solicitud_with_owner") = 0
             /\ (pc = "done" /\ resp.status_code = 201)
                  => \A d \in resp.body :
                        /\ d \in store
                        /\ IF req.foto_mascota
                           THEN d.foto_mascota = Some(UrlOf(d.id)) /\ UploadedAs(d.id)
                           ELSE d.foto_mascota = None /\ Uploads(log) = {}
C14_FailedUploadInsertsNothing ==
    (pc = "handler" /\ req.endpoint = "create_solicitud" /\ resp'.status_code = 400)
        => (store' = store /\ images' = images)

\* C14: when a photo is supplied and its upload fails the answer is 400 and
\* nothing is inserted; an inserted document has the URL of the upload made
\* under its own id as foto_mascota if a photo was supplied, null if not
C14_UploadFailureAndPhotoUrl ==
    []C14_PhotoOfInsertedDocument /\ [][C14_FailedUploadInsertsNothing]_vars
C14_Witness ==
    /\ pc = "done"
    /\ req.endpoint = "create_solicitud"
    /\ req.foto_mascota
    /\ UploadFailed
    /\ resp.status_code = 400
    /\ \E d \in store : d.foto_mascota = Some(UrlOf(d.id))

====
